---- MODULE Spec2Model ----
(***************************************************************************)
(* Model of rs-beam-search: BeamEntry (beam_entry.rs), BeamState           *)
(* (beam_state.rs) and ScoredValue / top_n_elements (sorting.rs).          *)
(*                                                                         *)
(* Probabilities and scores are exact numbers counted in units of 1e-5     *)
(* (integers), so additions are exact and scores are totally ordered (no   *)
(* NaN).  Option<T> is a sequence: <<>> is None and <<x>> is Some(x).  A    *)
(* Vec is a sequence; a 0-based position p of the source is element p + 1  *)
(* of the sequence.                                                        *)
(***************************************************************************)
EXTENDS Integers, Sequences, FiniteSets

VARIABLES
    entries,            \* BeamState.entries : labeling -> BeamEntry
    pruning,            \* BeamState.pruning
    pruning_threshold,  \* BeamState.pruning_threshold
    entry,              \* Option<BeamEntry>: a BeamEntry the caller owns outside any BeamState
    last,               \* the last call on the BeamState: operation, labeling, n, value returned
    applied,            \* per labeling, the sums of all deltas ever passed to update
    removed,            \* labelings that a prune step has removed at some time
    nUpdates,           \* number of additive updates made so far
    items,              \* top_n_elements: the argument v
    topn,               \* top_n_elements: the argument n
    returned,           \* top_n_elements: the value returned
    called              \* top_n_elements: whether the call has been made

bsVars == <<entries, pruning, pruning_threshold, entry, last, applied, removed, nUpdates>>
tnVars == <<items, topn, returned, called>>
vars == <<entries, pruning, pruning_threshold, entry, last, applied, removed, nUpdates,
          items, topn, returned, called>>

(***************************************************************************)
(* Bounds of the model.                                                    *)
(***************************************************************************)
MaxUpdates == 3
MaxLen == 4
MaxScore == 2

\* 1e-5 in units of 1e-5: the threshold of BeamState::default
DefaultThreshold == 1

\* the labelings the decoding loop proposes
Labelings == {"a", "b", "c"}
\* the deltas the decoding loop passes, in units of 1e-5: probability contributions,
\* which are never negative
Deltas == {0, 1}
\* the thresholds a BeamState is constructed with, in units of 1e-5
Thresholds == {0, DefaultThreshold}
Scores == 0..MaxScore

Min(a, b) == IF a < b THEN a ELSE b

\* all orders in which a set can be enumerated
Perms(S) ==
    {s \in [1..Cardinality(S) -> S] : \A i, j \in 1..Cardinality(S) : s[i] = s[j] => i = j}

(***************************************************************************)
(* sorting.rs: ScoredValue and its comparisons                             *)
(***************************************************************************)
ScoredValue_new(value, score) == [value |-> value, score |-> score]

\* f32::partial_cmp on comparable scores
f32_partial_cmp(x, y) == IF x < y THEN "Less" ELSE IF x = y THEN "Equal" ELSE "Greater"

ScoredValue_partial_cmp(self, other) == f32_partial_cmp(self.score, other.score)

ScoredValue_cmp(self, other) == ScoredValue_partial_cmp(self, other)

ScoredValue_eq(self, other) == self.score = other.score

\* the operators Rust derives from partial_cmp / eq
ScoredValue_ne(a, b) == ~ScoredValue_eq(a, b)
ScoredValue_gt(a, b) == ScoredValue_partial_cmp(a, b) = "Greater"
ScoredValue_le(a, b) == ScoredValue_partial_cmp(a, b) \in {"Less", "Equal"}

\* the heap's order without the Reverse wrapper: a max-heap
Unreversed_le(a, b) == ScoredValue_le(a, b)

\* Reverse(a) <= Reverse(b), the order of the heap's elements
Reverse_le(a, b) == ScoredValue_le(b, a)

(***************************************************************************)
(* BinaryHeap<Reverse<ScoredValue>> as its backing Vec                     *)
(***************************************************************************)
At(data, pos) == data[pos + 1]
Put(data, pos, x) == [data EXCEPT ![pos + 1] = x]

RECURSIVE sift_up(_, _, _, _)
sift_up(data, elt, start, pos) ==
    IF pos > start
    THEN LET parent == (pos - 1) \div 2
         IN  IF Reverse_le(elt, At(data, parent))
             THEN Put(data, pos, elt)
             ELSE sift_up(Put(data, pos, At(data, parent)), elt, start, parent)
    ELSE Put(data, pos, elt)

heap_push(data, x) == sift_up(Append(data, x), x, 0, Len(data))

RECURSIVE sift_down_to_bottom(_, _, _, _)
sift_down_to_bottom(data, elt, pos, child) ==
    LET end == Len(data)
    IN  IF end >= 2 /\ child <= end - 2
        THEN LET c == IF Reverse_le(At(data, child), At(data, child + 1))
                      THEN child + 1 ELSE child
             IN  sift_down_to_bottom(Put(data, pos, At(data, c)), elt, c, 2 * c + 1)
        ELSE IF child = end - 1
        THEN sift_up(Put(data, pos, At(data, child)), elt, 0, child)
        ELSE sift_up(data, elt, 0, pos)

\* BinaryHeap::pop on a non-empty heap: the heap left behind
heap_pop(data) ==
    LET item == data[Len(data)]
        rest == SubSeq(data, 1, Len(data) - 1)
    IN  IF rest = <<>> THEN rest ELSE sift_down_to_bottom(rest, item, 0, 1)

\* BinaryHeap::peek
heap_peek(data) == IF data = <<>> THEN <<>> ELSE <<data[1]>>

(***************************************************************************)
(* sort_by(|a, b| b.score.partial_cmp(&a.score).unwrap()): a stable sort   *)
(***************************************************************************)
\* the comparator with a and b exchanged: an ascending sort
RECURSIVE insert_asc(_, _)
insert_asc(sorted, x) ==
    IF sorted = <<>> THEN <<x>>
    ELSE IF f32_partial_cmp(sorted[Len(sorted)].score, x.score) = "Greater"
    THEN Append(insert_asc(SubSeq(sorted, 1, Len(sorted) - 1), x), sorted[Len(sorted)])
    ELSE Append(sorted, x)

RECURSIVE insert_desc(_, _)
insert_desc(sorted, x) ==
    IF sorted = <<>> THEN <<x>>
    ELSE IF f32_partial_cmp(x.score, sorted[Len(sorted)].score) = "Greater"
    THEN Append(insert_desc(SubSeq(sorted, 1, Len(sorted) - 1), x), sorted[Len(sorted)])
    ELSE Append(sorted, x)

RECURSIVE sort_by_score_desc(_)
sort_by_score_desc(s) ==
    IF s = <<>> THEN <<>>
    ELSE insert_desc(sort_by_score_desc(SubSeq(s, 1, Len(s) - 1)), s[Len(s)])

(***************************************************************************)
(* sorting.rs: top_n_elements                                              *)
(***************************************************************************)
\* the loop without the eviction branch: a full heap discards every candidate
top_n_step_no_evict(min_heap, scored_value, n) ==
    IF Len(min_heap) < n
    THEN heap_push(min_heap, scored_value)
    ELSE min_heap

\* one iteration of the for loop over v
top_n_step(min_heap, scored_value, n) ==
    IF Len(min_heap) < n
    THEN heap_push(min_heap, scored_value)
    ELSE IF heap_peek(min_heap) # <<>>
    THEN IF scored_value.score > heap_peek(min_heap)[1].score
         THEN heap_push(heap_pop(min_heap), scored_value)
         ELSE min_heap
    ELSE min_heap

RECURSIVE top_n_loop(_, _, _)
top_n_loop(v, k, n) ==
    IF k = 0 THEN <<>> ELSE top_n_step(top_n_loop(v, k - 1, n), v[k], n)

top_n_elements(v, n) ==
    IF Len(v) = 0 THEN v
    ELSE sort_by_score_desc(top_n_loop(v, Len(v), n))

(***************************************************************************)
(* beam_entry.rs: BeamEntry                                                *)
(***************************************************************************)
BeamEntry_new(pr_non_blank, pr_blank) ==
    [pr_total |-> pr_non_blank + pr_blank,
     pr_non_blank |-> pr_non_blank,
     pr_blank |-> pr_blank]

\* #[derive(Default)]
BeamEntry_default == [pr_total |-> 0, pr_non_blank |-> 0, pr_blank |-> 0]

\* pr_total grown by pr_blank only
update_probabilities_blank_only(self, pr_non_blank, pr_blank) ==
    [pr_total |-> self.pr_total + pr_blank,
     pr_non_blank |-> self.pr_non_blank + pr_non_blank,
     pr_blank |-> self.pr_blank + pr_blank]

update_probabilities(self, pr_non_blank, pr_blank) ==
    [pr_total |-> self.pr_total + (pr_blank + pr_non_blank),
     pr_non_blank |-> self.pr_non_blank + pr_non_blank,
     pr_blank |-> self.pr_blank + pr_blank]

(***************************************************************************)
(* beam_state.rs: BeamState.  The operators work on the entries map; the   *)
(* two configuration fields never change after construction.              *)
(***************************************************************************)
\* an empty HashMap
EmptyMap == [k \in {} |-> BeamEntry_default]

BeamState_new(p, t) == [entries |-> EmptyMap, pruning |-> p, pruning_threshold |-> t]

BeamState_default == BeamState_new(TRUE, DefaultThreshold)

get_probabilities(es, labeling) ==
    IF labeling \in DOMAIN es THEN <<es[labeling]>> ELSE <<>>

\* entries.insert(labeling, BeamEntry::default()): an entry already there is replaced
insert_default(es, labeling) ==
    [k \in DOMAIN es \cup {labeling} |->
        IF k = labeling THEN BeamEntry_default ELSE es[k]]

\* entries.entry(labeling).or_insert(BeamEntry::default())
or_insert_default(es, labeling) ==
    IF labeling \in DOMAIN es THEN es
    ELSE [k \in DOMAIN es \cup {labeling} |->
            IF k = labeling THEN BeamEntry_default ELSE es[k]]

\* update with the two deltas exchanged
BeamState_update_swapped(es, labeling, pr_non_blank, pr_blank) ==
    LET inserted == or_insert_default(es, labeling)
    IN  [inserted EXCEPT
            ![labeling] = update_probabilities(inserted[labeling], pr_blank, pr_non_blank)]

BeamState_update(es, labeling, pr_non_blank, pr_blank) ==
    LET inserted == or_insert_default(es, labeling)
    IN  [inserted EXCEPT
            ![labeling] = update_probabilities(inserted[labeling], pr_non_blank, pr_blank)]

\* retain with >= : an entry exactly at the threshold is kept
BeamState_prune_inclusive(es, threshold) ==
    [k \in {x \in DOMAIN es : es[x].pr_total >= threshold} |-> es[k]]

\* retain that resets a low entry to zero and keeps its key
BeamState_prune_reset(es, threshold) ==
    [k \in DOMAIN es |-> IF es[k].pr_total > threshold THEN es[k] ELSE BeamEntry_default]

\* entries.retain(|_, e| e.pr_total > self.pruning_threshold)
BeamState_prune(es, threshold) ==
    [k \in {x \in DOMAIN es : es[x].pr_total > threshold} |-> es[k]]

\* sort and sort_top_n pruning whatever the flag says
prune_always(es, p, threshold) == BeamState_prune(es, threshold)

\* the map after the "if self.pruning { self.prune(); }" that opens sort and sort_top_n
prune_if_enabled(es, p, threshold) ==
    IF p THEN BeamState_prune(es, threshold) ELSE es

\* self.entries.iter(): a HashMap yields its keys in an arbitrary order
iter(es) == Perms(DOMAIN es)

\* the Vec<(String, ProbabilityT)> returned by sort, on the map left by the pruning
BeamState_sort(es, keys) ==
    LET collected == [i \in 1..Len(keys) |->
                        [value |-> keys[i], score |-> es[keys[i]].pr_total]]
        sorted == sort_by_score_desc(collected)
    IN  [i \in 1..Len(sorted) |-> <<sorted[i].value, sorted[i].score>>]

\* the Vec<(String, ProbabilityT)> returned by sort_top_n, on the map left by the pruning
BeamState_sort_top_n(es, n, keys) ==
    LET collected == [i \in 1..Len(keys) |->
                        ScoredValue_new(keys[i], es[keys[i]].pr_total)]
        top == top_n_elements(collected, n)
    IN  [i \in 1..Len(top) |-> <<top[i].value, top[i].score>>]

(***************************************************************************)
(* The calls on one BeamState and on one BeamEntry                         *)
(***************************************************************************)
NoCall == [op |-> "new", labeling |-> "", n |-> 0, result |-> <<>>]

Call(op, labeling, n, result) ==
    [op |-> op, labeling |-> labeling, n |-> n, result |-> result]

NoApplied == [l \in Labelings |-> [pr_non_blank |-> 0, pr_blank |-> 0]]

\* top_n_elements is not running in the BeamState specification
TopNIdle ==
    /\ items = <<>>
    /\ topn = 0
    /\ returned = <<>>
    /\ called = FALSE

\* A behaviour exercises one object: a BeamState (entry is None), or a BeamEntry
\* of its own (the BeamState is then left as constructed).  The two share nothing.
InitState(bs, e) ==
    /\ entries = bs.entries
    /\ pruning = bs.pruning
    /\ pruning_threshold = bs.pruning_threshold
    /\ entry = e
    /\ last = NoCall
    /\ applied = NoApplied
    /\ removed = {}
    /\ nUpdates = 0
    /\ TopNIdle

Init ==
    \/ \E p \in BOOLEAN, t \in Thresholds : InitState(BeamState_new(p, t), <<>>)
    \/ InitState(BeamState_default, <<>>)
    \/ InitState(BeamState_default, <<BeamEntry_default>>)
    \/ \E x, y \in Deltas : InitState(BeamState_default, <<BeamEntry_new(x, y)>>)

Update(labeling, nb, b) ==
    /\ entry = <<>>
    /\ nUpdates < MaxUpdates
    /\ entries' = BeamState_update(entries, labeling, nb, b)
    /\ last' = Call("update", labeling, 0, <<>>)
    /\ applied' = [applied EXCEPT
                     ![labeling] = [pr_non_blank |-> @.pr_non_blank + nb,
                                    pr_blank |-> @.pr_blank + b]]
    /\ nUpdates' = nUpdates + 1
    /\ UNCHANGED <<pruning, pruning_threshold, entry, removed>>
    /\ UNCHANGED tnVars

EntryUpdate(nb, b) ==
    /\ entry # <<>>
    /\ nUpdates < MaxUpdates
    /\ entry' = <<update_probabilities(entry[1], nb, b)>>
    /\ nUpdates' = nUpdates + 1
    /\ UNCHANGED <<entries, pruning, pruning_threshold, last, applied, removed>>
    /\ UNCHANGED tnVars

Get(labeling) ==
    /\ entry = <<>>
    /\ last' = Call("get_probabilities", labeling, 0, get_probabilities(entries, labeling))
    /\ UNCHANGED <<entries, pruning, pruning_threshold, entry, applied, removed, nUpdates>>
    /\ UNCHANGED tnVars

Prune ==
    /\ entry = <<>>
    /\ entries' = BeamState_prune(entries, pruning_threshold)
    /\ last' = Call("prune", "", 0, <<>>)
    /\ removed' = removed \cup (DOMAIN entries \ DOMAIN entries')
    /\ UNCHANGED <<pruning, pruning_threshold, entry, applied, nUpdates>>
    /\ UNCHANGED tnVars

Sort ==
    /\ entry = <<>>
    /\ entries' = prune_if_enabled(entries, pruning, pruning_threshold)
    /\ \E keys \in iter(entries') : last' = Call("sort", "", 0, BeamState_sort(entries', keys))
    /\ removed' = removed \cup (DOMAIN entries \ DOMAIN entries')
    /\ UNCHANGED <<pruning, pruning_threshold, entry, applied, nUpdates>>
    /\ UNCHANGED tnVars

SortTopN(n) ==
    /\ entry = <<>>
    /\ entries' = prune_if_enabled(entries, pruning, pruning_threshold)
    /\ \E keys \in iter(entries') :
          last' = Call("sort_top_n", "", n, BeamState_sort_top_n(entries', n, keys))
    /\ removed' = removed \cup (DOMAIN entries \ DOMAIN entries')
    /\ UNCHANGED <<pruning, pruning_threshold, entry, applied, nUpdates>>
    /\ UNCHANGED tnVars

Next ==
    \/ \E l \in Labelings, nb, b \in Deltas : Update(l, nb, b)
    \/ \E nb, b \in Deltas : EntryUpdate(nb, b)
    \/ \E l \in Labelings : Get(l)
    \/ Prune
    \/ Sort
    \/ \E n \in 0..(Cardinality(Labelings) + 1) : SortTopN(n)

Spec == Init /\ [][Next]_vars

(***************************************************************************)
(* top_n_elements on its own: every input of at most MaxLen items          *)
(***************************************************************************)
\* the item at position i carries i as its value, so items are told apart
Inputs ==
    UNION {{[i \in 1..len |-> ScoredValue_new(i, sc[i])] : sc \in [1..len -> Scores]} :
            len \in 0..MaxLen}

InitTopN ==
    /\ items \in Inputs
    /\ topn \in 0..(MaxLen + 1)
    /\ returned = <<>>
    /\ called = FALSE
    /\ entries = EmptyMap
    /\ pruning = FALSE
    /\ pruning_threshold = 0
    /\ entry = <<>>
    /\ last = NoCall
    /\ applied = NoApplied
    /\ removed = {}
    /\ nUpdates = 0

CallTopN ==
    /\ ~called
    /\ returned' = top_n_elements(items, topn)
    /\ called' = TRUE
    /\ UNCHANGED <<items, topn>>
    /\ UNCHANGED bsVars

NextTopN == CallTopN

SpecTopN == InitTopN /\ [][NextTopN]_vars

(***************************************************************************)
(* Properties of top_n_elements (under SpecTopN)                           *)
(***************************************************************************)
ScoresOf(v) == {v[i].score : i \in DOMAIN v}
CountAtLeast(v, s) == Cardinality({i \in DOMAIN v : v[i].score >= s})

\* the k-th largest score of v (1 <= k <= Len(v)), by counting
KthLargest(v, k) ==
    CHOOSE s \in ScoresOf(v) :
        /\ CountAtLeast(v, s) >= k
        /\ \A t \in ScoresOf(v) : t > s => CountAtLeast(v, t) < k

\* C1: top_n_elements(items, n) returns exactly min(n, len) items, each an input
\* item and none twice, in non-increasing score order, and the i-th returned score
\* is the i-th largest score of the input (empty input, n = 0 and n >= len included).
C1_TopNIsTrueTopN ==
    called =>
        LET k == Min(topn, Len(items))
        IN  /\ Len(returned) = k
            /\ \A i \in 1..Len(returned) :
                   \E j \in DOMAIN items : returned[i] = items[j]
            /\ \A i, j \in 1..Len(returned) :
                   returned[i].value = returned[j].value => i = j
            /\ \A i \in 1..(Len(returned) - 1) :
                   returned[i].score >= returned[i + 1].score
            /\ \A i \in 1..k : returned[i].score = KthLargest(items, i)

\* a call with 0 < n < len where the heap evicted an early item for the last one,
\* and with a tie among the input's scores
C1_Witness ==
    /\ called
    /\ topn = 2
    /\ Len(items) = MaxLen
    /\ \E i \in 1..Len(returned) : returned[i].value = MaxLen
    /\ \E i, j \in DOMAIN items : i # j /\ items[i].score = items[j].score
    /\ returned[1].score > returned[2].score

\* C8: for any two ScoredValues a, b with a.score < b.score, a != b and a > b
\* (what test_cmp asserts).
C8_LowerScoreComparesGreater ==
    \A i, j \in DOMAIN items :
        items[i].score < items[j].score =>
            /\ ScoredValue_ne(items[i], items[j])
            /\ ScoredValue_gt(items[i], items[j])

(***************************************************************************)
(* Properties of BeamEntry and BeamState (under Spec)                      *)
(***************************************************************************)
PrunesOnCall(call) ==
    \/ call.op = "prune"
    \/ call.op \in {"sort", "sort_top_n"} /\ pruning

\* the labelings of a returned Vec<(String, ProbabilityT)>, and its scores
KeysOf(result) == {result[i][1] : i \in DOMAIN result}
ScoreSeq(result) == [i \in DOMAIN result |-> result[i][2]]

TiedInMap(es, score) == Cardinality({l \in DOMAIN es : es[l].pr_total = score}) > 1

\* C2: sort_top_n(n) returns the same scores as sort() on the same state cut to its
\* first n elements, the same labelings at the positions whose score is not tied,
\* and all surviving entries when n exceeds their number.
C2_SortTopNIsSortTruncated ==
    last.op = "sort_top_n" =>
        \A keys \in iter(prune_if_enabled(entries, pruning, pruning_threshold)) :
            LET full == BeamState_sort(
                            prune_if_enabled(entries, pruning, pruning_threshold), keys)
                k == Min(last.n, Len(full))
            IN  /\ Len(last.result) = k
                /\ ScoreSeq(last.result) = ScoreSeq(SubSeq(full, 1, k))
                /\ \A i \in 1..k :
                       ~TiedInMap(entries, full[i][2]) => last.result[i][1] = full[i][1]
                /\ last.n >= Cardinality(DOMAIN entries) =>
                       KeysOf(last.result) = DOMAIN entries

\* sort_top_n(2) on three entries with three different scores
C2_Witness ==
    /\ last.op = "sort_top_n"
    /\ last.n = 2
    /\ Cardinality(DOMAIN entries) = 3
    /\ Len(last.result) = 2
    /\ last.result[1][2] > last.result[2][2]
    /\ \E l \in DOMAIN entries : entries[l].pr_total < last.result[2][2]

\* C3: sort() returns every entry left in the collection exactly once, paired with
\* its pr_total, nothing else, in non-increasing order of pr_total.
C3_SortIsSortedPermutation ==
    last.op = "sort" =>
        /\ Len(last.result) = Cardinality(DOMAIN entries)
        /\ KeysOf(last.result) = DOMAIN entries
        /\ \A i \in DOMAIN last.result :
               last.result[i][2] = entries[last.result[i][1]].pr_total
        /\ \A i \in 1..(Len(last.result) - 1) :
               last.result[i][2] >= last.result[i + 1][2]

\* sort() with pruning on: an entry was pruned and two with different scores are returned
C3_Witness ==
    /\ last.op = "sort"
    /\ pruning
    /\ removed # {}
    /\ Len(last.result) = 2
    /\ last.result[1][2] > last.result[2][2]

\* C4: after prune() every entry left has pr_total > threshold, every entry
\* removed had pr_total <= threshold when prune was called, and the entries left
\* are unchanged.
C4_PruneKeepsExactlyAbove ==
    [][last'.op = "prune" =>
         /\ DOMAIN entries' \subseteq DOMAIN entries
         /\ \A l \in DOMAIN entries' :
                /\ entries'[l].pr_total > pruning_threshold
                /\ entries'[l] = entries[l]
         /\ \A l \in DOMAIN entries \ DOMAIN entries' :
                entries[l].pr_total <= pruning_threshold]_vars

\* prune() that removed an entry exactly at the threshold and kept another one:
\* after two updates, the removed labeling got one, so its pr_total was what was applied
C4_Witness ==
    /\ last.op = "prune"
    /\ nUpdates = 2
    /\ DOMAIN entries # {}
    /\ \E l \in removed \ DOMAIN entries :
           applied[l].pr_non_blank + applied[l].pr_blank = pruning_threshold

\* C5 as stated: with pruning = false, prune() leaves the collection as it was.
C5_PruneDisabledHasNoEffect ==
    [][(~pruning /\ last'.op = "prune") => entries' = entries]_vars

\* C5 amended: with pruning = false, prune() still removes exactly the entries with
\* pr_total <= threshold and leaves the others unchanged; it is sort() and
\* sort_top_n() that leave the collection as it was.
C5_FlagGuardsOnlySorts ==
    [][~pruning =>
         /\ last'.op = "prune" =>
                /\ DOMAIN entries' = {l \in DOMAIN entries :
                                        entries[l].pr_total > pruning_threshold}
                /\ \A l \in DOMAIN entries' : entries'[l] = entries[l]
         /\ last'.op \in {"sort", "sort_top_n"} => entries' = entries]_vars

\* pruning = false, and an explicit prune() has removed an entry
C5_Witness ==
    /\ ~pruning
    /\ last.op = "prune"
    /\ removed # {}

\* C6: every BeamEntry, in a BeamState or on its own, has
\* pr_total = pr_non_blank + pr_blank.
C6_TotalIsSum ==
    /\ \A l \in DOMAIN entries :
           entries[l].pr_total = entries[l].pr_non_blank + entries[l].pr_blank
    /\ entry # <<>> => entry[1].pr_total = entry[1].pr_non_blank + entry[1].pr_blank

\* an entry of a BeamState built by several updates with both deltas non-zero
C6_Witness ==
    \E l \in DOMAIN entries :
        /\ entries[l].pr_non_blank = 2
        /\ entries[l].pr_blank = 1
        /\ entries[l].pr_total = 3

\* C7: the entry of a labeling that was only ever updated holds the sums of the
\* deltas applied to it, whatever was applied to other labelings in between.
C7_EntryIsSumOfDeltas ==
    \A l \in DOMAIN entries :
        l \notin removed =>
            /\ entries[l].pr_non_blank = applied[l].pr_non_blank
            /\ entries[l].pr_blank = applied[l].pr_blank
            /\ entries[l].pr_total = applied[l].pr_non_blank + applied[l].pr_blank

\* two updates of one labeling with an update of another labeling as the last call
C7_Witness ==
    /\ removed = {}
    /\ last.op = "update"
    /\ \E l \in DOMAIN entries :
           /\ l # last.labeling
           /\ entries[l].pr_non_blank = 2
           /\ entries[l].pr_blank = 1
    /\ entries[last.labeling].pr_total > 0

\* C9: a labeling that stays in the collection never has a field decrease, and its
\* entry changes only in an update of that labeling; a labeling leaves only in a
\* step that prunes, and is then absent as a whole.
C9_GrowOrRemove ==
    [][\A l \in Labelings :
         /\ (l \in DOMAIN entries /\ l \in DOMAIN entries') =>
                /\ entries'[l].pr_non_blank >= entries[l].pr_non_blank
                /\ entries'[l].pr_blank >= entries[l].pr_blank
                /\ entries'[l].pr_total >= entries[l].pr_total
                /\ entries'[l] # entries[l] =>
                       (last'.op = "update" /\ last'.labeling = l)
         /\ (l \in DOMAIN entries /\ l \notin DOMAIN entries') =>
                /\ PrunesOnCall(last')
                /\ get_probabilities(entries', l) = <<>>]_vars

\* sort_top_n with pruning on removed one labeling and left another that had grown
C9_Witness ==
    /\ last.op = "sort_top_n"
    /\ pruning
    /\ removed \ DOMAIN entries # {}
    /\ \E l \in DOMAIN entries : entries[l].pr_total = 2

\* C10: a labeling whose pr_total is at or below the threshold is absent
\* (get_probabilities gives None) after a step that prunes, and every update adds
\* its deltas to what the collection holds for the labeling at that time, a fresh
\* zero entry if it is absent, so a labeling updated after its removal holds exactly
\* the deltas of that update.
C10_PruneDiscardsMass ==
    [][/\ PrunesOnCall(last') =>
            \A l \in DOMAIN entries :
                entries[l].pr_total <= pruning_threshold =>
                    get_probabilities(entries', l) = <<>>
       /\ last'.op = "update" =>
            LET l == last'.labeling
                x == applied'[l].pr_non_blank - applied[l].pr_non_blank
                y == applied'[l].pr_blank - applied[l].pr_blank
                before == IF l \in DOMAIN entries THEN entries[l] ELSE BeamEntry_default
            IN  /\ get_probabilities(entries', l) # <<>>
                /\ entries'[l].pr_non_blank = before.pr_non_blank + x
                /\ entries'[l].pr_blank = before.pr_blank + y
                /\ entries'[l].pr_total = before.pr_total + x + y
                /\ (l \in removed /\ l \notin DOMAIN entries) =>
                       entries'[l] = [pr_total |-> x + y, pr_non_blank |-> x,
                                      pr_blank |-> y]]_vars

\* a labeling updated again after a prune step removed it: its entry holds less
\* than what was applied to it in all
C10_Witness ==
    /\ last.op = "update"
    /\ last.labeling \in removed
    /\ entries[last.labeling].pr_total = 1
    /\ applied[last.labeling].pr_non_blank + applied[last.labeling].pr_blank = 2

====
